---- MODULE Spec2Model ----
(***************************************************************************)
(* A model of process_physio_ses_1.py: trigger detection, run              *)
(* segmentation, channel renaming, run metadata extraction and the main    *)
(* loop over the four runs of a session.                                   *)
(*                                                                         *)
(* Sample indices are Python's: 0-based.  A TLA+ sequence s holds the      *)
(* Python element s[j] at position j + 1.                                  *)
(***************************************************************************)
EXTENDS Integers, Sequences, FiniteSets, TLC

VARIABLES
    \* ---- find_runs / extract_trigger_points
    data,              \* the recording: a sequence of rows, each row a tuple of channel samples
    mri_trigger_data,  \* the module global of that name that find_runs reads at line 230
    run_metadata,      \* the dictionary handed to find_runs
    sampling_rate,     \* find_runs' sampling_rate argument
    trigger_starts,    \* the detected onsets (0-based sample indices)
    i,                 \* the loop index of find_runs' scan
    current_run,       \* the candidate accumulated so far
    runs,              \* the segments emitted so far
    accepted,          \* history: the candidate and end_idx at each emission
    discards,          \* history: the candidates dropped without an emission
    pc,                \* position of find_runs
    \* ---- rename_channels
    labels,            \* the labels handed to rename_channels
    bids_labels,       \* its return value, None before the call
    \* ---- extract_metadata_from_json
    processed_jsons,   \* the set of already processed paths
    call,              \* the last call's arguments: path and the file's state
    result,            \* the last call's outcome
    succeeded,         \* history: the paths whose extraction returned metadata
    \* ---- main
    physio_root_dir,   \* the directory path handed to main, a sequence of characters
    bids_root_dir,     \* main's other argument: the root of the BIDS dataset
    mat_file,          \* the state of the .mat recording on disk
    json_files,        \* the state of each run's .json file
    trigger_channel_index,  \* main's local of that name (0-based), -1 before line 310
    trigger_channel_data,   \* main's local of that name: a column of data
    run_idx,           \* the loop variable of main
    visited,           \* history: run indices whose metadata extraction was called
    skipped,           \* history: run indices left by "continue"
    segmented,         \* history: run indices for which find_runs was called
    main_pc,           \* position of main
    error              \* the exception main's handler caught, None if none

segVars  == <<data, mri_trigger_data, run_metadata, sampling_rate, trigger_starts, i, current_run,
              runs, accepted, discards, pc>>
mapVars  == <<labels, bids_labels>>
metaVars == <<processed_jsons, call, result, succeeded>>
mainVars == <<physio_root_dir, bids_root_dir, mat_file, json_files, trigger_channel_index,
              trigger_channel_data, run_idx, visited, skipped,
              segmented, main_pc, error>>
vars     == <<segVars, mapVars, metaVars, mainVars>>

\* the value of run_metadata while find_runs is not running
NoRunMetadata == [TaskName |-> "", RepetitionTime |-> 0, NumVolumes |-> 0]

\* the value of error while main has caught no exception
NoError == [type |-> "", raised_by |-> ""]

Min(a, b) == IF a < b THEN a ELSE b

(***************************************************************************)
(* Bounds of the model.                                                    *)
(***************************************************************************)
MaxSamples      == 8    \* rows of the recording
MaxVolumes      == 3    \* NumVolumes ranges over 1..MaxVolumes
MaxTR           == 3    \* RepetitionTime ranges over 1/TRDen .. MaxTR/TRDen seconds
TRDen           == 2    \* RepetitionTime is a multiple of 1/TRDen seconds
MaxSamplingRate == 2    \* sampling_rate ranges over 1..MaxSamplingRate samples per second

\* a sample at the threshold and a sample above it
SampleValues == {5, 8}

(***************************************************************************)
(* extract_trigger_points                                                  *)
(***************************************************************************)
threshold == 5

\* line 202, signal being the parameter mri_trigger_data:
\* (mri_trigger_data > threshold).astype(int)
triggers(signal) ==
    [j \in 1..Len(signal) |->
        IF signal[j] > threshold THEN 1 ELSE 0]

\* a variant of diff_triggers: the first sample stands before itself, so
\* that index 0 is never a rise
diff_triggers_noprepend(signal) ==
    LET t == triggers(signal)
    IN  [j \in 1..Len(t) |-> t[j] - (IF j = 1 THEN t[1] ELSE t[j - 1])]

\* np.diff(triggers, prepend=0): element j is triggers[j] - triggers[j-1],
\* with 0 standing before the first sample.
diff_triggers(signal) ==
    LET t == triggers(signal)
    IN  [j \in 1..Len(t) |-> t[j] - (IF j = 1 THEN 0 ELSE t[j - 1])]

\* np.where(diff_triggers == 1)[0]: the 0-based indices, ascending.
extract_trigger_points(signal) ==
    LET d   == diff_triggers(signal)
        idx == [j \in 1..Len(d) |-> j - 1]
    IN  SelectSeq(idx, LAMBDA x : d[x + 1] = 1)

(***************************************************************************)
(* find_runs                                                               *)
(***************************************************************************)
\* A RepetitionTime of r / TRDen seconds is held as the integer r.
\* int(sampling_rate * repetition_time) truncates the product.
samples_per_volume(rate, repetition_time) == (rate * repetition_time) \div TRDen

\* data[start_idx:end_idx, :]: Python clips the slice to the rows there are.
SliceRows(d, start_idx, end_idx) == SubSeq(d, start_idx + 1, Min(end_idx, Len(d)))

\* line 235-236
AppendOnset(cur, num_volumes_per_run, onset) ==
    IF Len(cur) < num_volumes_per_run THEN Append(cur, onset) ELSE cur

\* line 237
RunBoundary(cur, num_volumes_per_run, gap, spv) ==
    Len(cur) = num_volumes_per_run \/ gap > spv

\* a variant of AcceptCandidate: any candidate met at a boundary is taken
AcceptCandidatePartial(cur, num_volumes_per_run) == Len(cur) >= 1

\* line 238 and line 246
AcceptCandidate(cur, num_volumes_per_run) == Len(cur) = num_volumes_per_run

\* a variant of end_idx: one volume too many
end_idx_extra_volume(start_idx, num_volumes_per_run, spv) ==
    start_idx + (num_volumes_per_run + 1) * spv

\* line 241 and line 248
end_idx(start_idx, num_volumes_per_run, spv) ==
    start_idx + num_volumes_per_run * spv

\* line 239-243 and 247-250: the dictionary appended to runs
Segment(d, cur, num_volumes_per_run, spv) ==
    [data        |-> SliceRows(d, cur[1], end_idx(cur[1], num_volumes_per_run, spv)),
     start_index |-> cur[1]]

num_volumes == run_metadata.NumVolumes
spv         == samples_per_volume(sampling_rate, run_metadata.RepetitionTime)

\* find_runs has no parameter mri_trigger_data and the module binds no
\* global of that name: line 230 looks the name up in the module's globals
\* when it runs.  Unbound is the module as it is loaded; Bound(channel) is
\* the module after the program that imported it has set the name.
Unbound        == [bound |-> FALSE, value |-> <<>>]
Bound(channel) == [bound |-> TRUE,  value |-> channel]

\* data[:, column] for a 0-based column
Column(d, column) == [j \in 1..Len(d) |-> d[j][column + 1]]

Emit(cur) ==
    /\ runs' = Append(runs, Segment(data, cur, num_volumes, spv))
    /\ accepted' = Append(accepted,
                       [onsets  |-> cur,
                        end_idx |-> end_idx(cur[1], num_volumes, spv)])

\* line 224-230: with the name unbound the lookup raises NameError, which
\* line 254-256 logs and raises again
Detect ==
    /\ pc = "start"
    /\ IF mri_trigger_data.bound
       THEN /\ trigger_starts' = extract_trigger_points(mri_trigger_data.value)
            /\ pc' = "scan"
       ELSE /\ pc' = "raised"
            /\ UNCHANGED trigger_starts
    /\ UNCHANGED <<data, mri_trigger_data, run_metadata, sampling_rate, i,
                   current_run, runs, accepted, discards>>
    /\ UNCHANGED <<mapVars, metaVars, mainVars>>

\* one iteration of the loop at line 234-244
ScanStep ==
    /\ pc = "scan"
    /\ i < Len(trigger_starts) - 1
    /\ LET cur == AppendOnset(current_run, num_volumes, trigger_starts[i + 1])
           gap == trigger_starts[i + 2] - trigger_starts[i + 1]
       IN  IF RunBoundary(cur, num_volumes, gap, spv)
           THEN /\ IF AcceptCandidate(cur, num_volumes)
                   THEN Emit(cur) /\ UNCHANGED discards
                   ELSE /\ discards' = Append(discards, cur)
                        /\ UNCHANGED <<runs, accepted>>
                /\ current_run' = <<>>
           ELSE /\ current_run' = cur
                /\ UNCHANGED <<runs, accepted, discards>>
    /\ i' = i + 1
    /\ UNCHANGED <<data, mri_trigger_data, run_metadata, sampling_rate,
                   trigger_starts, pc>>
    /\ UNCHANGED <<mapVars, metaVars, mainVars>>

\* line 245-253: the check after the loop, and the return
ScanEnd ==
    /\ pc = "scan"
    /\ ~(i < Len(trigger_starts) - 1)
    /\ IF AcceptCandidate(current_run, num_volumes)
       THEN Emit(current_run)
       ELSE UNCHANGED <<runs, accepted>>
    /\ pc' = "done"
    /\ UNCHANGED <<data, mri_trigger_data, run_metadata, sampling_rate,
                   trigger_starts, i, current_run, discards>>
    /\ UNCHANGED <<mapVars, metaVars, mainVars>>

(***************************************************************************)
(* rename_channels.  A label is the sequence of its characters, so that    *)
(* Python's "original in label" is containment of one sequence in another. *)
(***************************************************************************)
MaxLabels == 3    \* labels handed to rename_channels

\* the strings of rename_channels, as character sequences
ECG_ ==
    <<"E", "C", "G">>
RSP_ ==
    <<"R", "S", "P">>
EDA_ ==
    <<"E", "D", "A">>
TRIGGER_ ==
    <<"T", "r", "i", "g", "g", "e", "r">>
PPG_ ==
    <<"P", "P", "G">>
DIGITAL_ ==
    <<"D", "i", "g", "i", "t", "a", "l", " ", "i", "n", "p", "u", "t">>

\* labels of a recording
\* 'ECG1'
L_ECG1 ==
    <<"E", "C", "G", "1">>
\* 'RSP1'
L_RSP1 ==
    <<"R", "S", "P", "1">>
\* 'Trigger'
L_TRIGGER ==
    <<"T", "r", "i", "g", "g", "e", "r">>
\* 'Digital input 1'
L_DIGITAL1 ==
    <<"D", "i", "g", "i", "t", "a", "l", " ", "i", "n", "p", "u", "t", " ", "1">>
\* 'Digital input ECG'
L_DIGITAL_ECG ==
    <<"D", "i", "g", "i", "t", "a", "l", " ", "i", "n", "p", "u", "t", " ", "E", "C", "G">>
\* 'EDA-RSP'
L_EDA_RSP ==
    <<"E", "D", "A", "-", "R", "S", "P">>
\* 'PPG-ECG'
L_PPG_ECG ==
    <<"P", "P", "G", "-", "E", "C", "G">>
\* 'ecg'
L_LOWER_ECG ==
    <<"e", "c", "g">>

\* Python's "pattern in text" for strings
Contains(pattern, text) ==
    \E p \in 0..(Len(text) - Len(pattern)) :
        SubSeq(text, p + 1, p + Len(pattern)) = pattern

\* line 100-106, in the dictionary's insertion order
original_label_mapping ==
    << [original |-> ECG_,     bids |-> "cardiac"],
       [original |-> RSP_,     bids |-> "respiratory"],
       [original |-> EDA_,     bids |-> "eda"],
       [original |-> TRIGGER_, bids |-> "trigger"],
       [original |-> PPG_,     bids |-> "ppg"] >>

\* line 115
digital_input_marker == DIGITAL_

\* line 115-116
SkipLabel(label) == Contains(digital_input_marker, label)

Matches(label) ==
    {e \in 1..Len(original_label_mapping) :
        Contains(original_label_mapping[e].original, label)}

\* a variant of FirstMatch: the last entry whose key is in the label
LastMatch(label) ==
    IF Matches(label) = {} THEN 0
    ELSE CHOOSE e \in Matches(label) : \A f \in Matches(label) : f <= e

\* line 119-123: the first entry, in the dictionary's order, whose key is in
\* the label; 0 when the loop ends without a break
FirstMatch(label) ==
    IF Matches(label) = {} THEN 0
    ELSE CHOOSE e \in Matches(label) : \A f \in Matches(label) : e <= f

\* bids_labels_dictionary[label] = bids on a dictionary kept as its items in
\* insertion order: a key already there keeps its place
DictSet(items, key, value) ==
    IF \E p \in 1..Len(items) : items[p].key = key
    THEN [p \in 1..Len(items) |->
             IF items[p].key = key THEN [key |-> key, value |-> value] ELSE items[p]]
    ELSE Append(items, [key |-> key, value |-> value])

RECURSIVE rename_loop(_, _, _)
\* line 113-125
rename_loop(rest, bids_labels_dictionary, bids_labels_list) ==
    IF rest = <<>>
    THEN [dictionary |-> bids_labels_dictionary, list |-> bids_labels_list]
    ELSE LET label == Head(rest)
             e     == FirstMatch(label)
         IN  IF SkipLabel(label) \/ e = 0
             THEN rename_loop(Tail(rest), bids_labels_dictionary, bids_labels_list)
             ELSE rename_loop(Tail(rest),
                      DictSet(bids_labels_dictionary, label,
                              original_label_mapping[e].bids),
                      Append(bids_labels_list, original_label_mapping[e].bids))

\* line 90-131
rename_channels(ls) == rename_loop(ls, <<>>, <<>>)

\* the value of bids_labels before rename_channels has returned
NotRenamed == [dictionary |-> <<>>, list |-> <<"not called">>]

LabelPool ==
    { L_ECG1, L_RSP1, L_TRIGGER, L_DIGITAL1, L_DIGITAL_ECG, L_EDA_RSP, L_PPG_ECG,
      L_LOWER_ECG }

LabelLists == UNION {[1..len -> LabelPool] : len \in 0..MaxLabels}

\* one call of rename_channels
RenameChannels ==
    /\ bids_labels = NotRenamed
    /\ bids_labels' = rename_channels(labels)
    /\ UNCHANGED labels
    /\ UNCHANGED <<segVars, metaVars, mainVars>>

(***************************************************************************)
(* extract_metadata_from_json.  A JSON value is a record; a key the file   *)
(* does not hold has kind "absent".  A RepetitionTime of r / TRDen seconds *)
(* is the number r.                                                        *)
(***************************************************************************)
MaxPaths == 2    \* paths handed to extract_metadata_from_json

JAbsent == [kind |-> "absent", str |-> "", num |-> 0]
JNull   == [kind |-> "null",   str |-> "", num |-> 0]
JStr(s) == [kind |-> "string", str |-> s,  num |-> 0]
JNum(n) == [kind |-> "number", str |-> "", num |-> n]

\* Python's None: json.load's value for null, and dict.get's for a missing key
PyNone == JNull

\* bool(value), as all() applies it
Truthy(value) ==
    \/ value.kind = "string" /\ value.str # ""
    \/ value.kind = "number" /\ value.num # 0

\* line 160-164, in the dictionary's insertion order
required_fields == <<"TaskName", "RepetitionTime", "NumVolumes">>

RequiredFields == {required_fields[p] : p \in 1..Len(required_fields)}

\* metadata.get(key)
get(metadata, key) ==
    IF metadata[key].kind = "absent" THEN PyNone ELSE metadata[key]

\* line 160-164
ExtractFields(metadata) == [key \in RequiredFields |-> get(metadata, key)]

\* line 167: not all(run_metadata.values())
FieldsIncomplete(fields) == ~(\A key \in RequiredFields : Truthy(fields[key]))

\* line 168
missing_fields(fields) ==
    SelectSeq(required_fields, LAMBDA key : fields[key] = PyNone)

EmptyMetadata == [key \in RequiredFields |-> JAbsent]

Outcome(kind, fields, missing, accessed, validated) ==
    [kind           |-> kind,
     run_metadata   |-> fields,
     missing_fields |-> missing,
     accessed       |-> accessed,     \* line 150 was reached: the file system was asked
     validated      |-> validated]    \* line 167 was reached: the fields were checked

\* a variant of AlreadyProcessed: the check at line 145 left out
NeverProcessed(json_file_path, processed) == FALSE

\* line 145
AlreadyProcessed(json_file_path, processed) == json_file_path \in processed

\* line 134-189.  file is the state of the file at json_file_path when the
\* call is made.  The value is the call's outcome (what it returns or
\* raises) and the set processed_jsons it leaves.
extract_metadata_from_json(json_file_path, file, processed) ==
    IF AlreadyProcessed(json_file_path, processed)
    THEN [result          |-> Outcome("None", EmptyMetadata, <<>>, FALSE, FALSE),
          processed_jsons |-> processed]
    ELSE IF file.kind = "absent"
    THEN [result          |-> Outcome("FileNotFoundError", EmptyMetadata, <<>>, TRUE, FALSE),
          processed_jsons |-> processed]
    ELSE IF file.kind = "malformed"
    THEN [result          |-> Outcome("JSONDecodeError", EmptyMetadata, <<>>, TRUE, FALSE),
          processed_jsons |-> processed]
    ELSE LET fields == ExtractFields(file.metadata)
         IN  IF FieldsIncomplete(fields)
             THEN [result          |-> Outcome("ValueError", fields,
                                               missing_fields(fields), TRUE, TRUE),
                   processed_jsons |-> processed]
             ELSE [result          |-> Outcome("tuple", fields, <<>>, TRUE, TRUE),
                   processed_jsons |-> processed \cup {json_file_path}]

Raised(outcome) ==
    outcome.kind \in {"FileNotFoundError", "JSONDecodeError", "ValueError"}

\* a decimal digit as a character
Digit(d) == <<"0", "1", "2", "3", "4", "5", "6", "7", "8", "9">>[d + 1]

RECURSIVE Decimal(_)
\* str(n) for n >= 0, as a character sequence
Decimal(n) == IF n < 10 THEN <<Digit(n)>> ELSE Decimal(n \div 10) \o <<Digit(n % 10)>>

\* the format specification 02d: zero-padded to two characters at least
ZeroPad2(digits) == IF Len(digits) < 2 THEN <<"0">> \o digits ELSE digits

\* line 322: f"run-{run_idx:02d}"
run_id(r) == <<"r", "u", "n", "-">> \o ZeroPad2(Decimal(r))

\* line 325
json_file_name(subject_id, session_id, r) ==
    subject_id \o <<"_">> \o session_id \o <<"_", "t", "a", "s", "k", "-", "r", "e", "s", "t", "_">> \o run_id(r) \o <<"_", "b", "o", "l", "d", ".", "j", "s", "o", "n">>

\* posixpath.join's step for one part b: a part that begins with a slash
\* replaces what came before; a separator is put in only when what came
\* before is not empty and does not end in one
join_part(path, b) ==
    IF b # <<>> /\ b[1] = "/" THEN b
    ELSE IF path = <<>> \/ path[Len(path)] = "/" THEN path \o b
    ELSE path \o <<"/">> \o b

RECURSIVE join(_, _)
\* os.path.join(a, *parts)
join(a, parts) ==
    IF parts = <<>> THEN a ELSE join(join_part(a, Head(parts)), Tail(parts))

\* line 326
json_file_path(root, subject_id, session_id, r) ==
    join(root, <<subject_id, session_id, <<"f", "u", "n", "c">>,
                 json_file_name(subject_id, session_id, r)>>)

TaskNames       == {JAbsent, JNull, JStr(""), JStr("rest")}
RepetitionTimes == {JAbsent, JNull, JNum(0), JNum(TRDen)}
NumVolumesSet   == {JAbsent, JNull, JNum(0), JNum(MaxVolumes)}

Mappings ==
    [TaskName : TaskNames, RepetitionTime : RepetitionTimes, NumVolumes : NumVolumesSet]

AbsentFile    == [kind |-> "absent",    metadata |-> EmptyMetadata]
MalformedFile == [kind |-> "malformed", metadata |-> EmptyMetadata]
MappingFile(m) == [kind |-> "mapping", metadata |-> m]

FileStates == {AbsentFile, MalformedFile} \cup {MappingFile(m) : m \in Mappings}

Paths == {json_file_path(<<"b", "i", "d", "s">>, <<"s", "u", "b", "-", "0", "1">>, <<"s", "e", "s", "-", "1">>, r) : r \in 1..MaxPaths}

NoCall   == [path |-> <<>>, file |-> AbsentFile]
NoResult == Outcome("not called", EmptyMetadata, <<>>, FALSE, FALSE)

\* one call of extract_metadata_from_json on the shared set processed_jsons
MetaCall ==
    /\ \E path \in Paths, file \in FileStates :
          LET r == extract_metadata_from_json(path, file, processed_jsons)
          IN  /\ call' = [path |-> path, file |-> file]
              /\ result' = r.result
              /\ processed_jsons' = r.processed_jsons
              /\ succeeded' = IF r.result.kind = "tuple"
                              THEN succeeded \cup {path} ELSE succeeded
    /\ UNCHANGED <<segVars, mapVars, mainVars>>

(***************************************************************************)
(* extract_subject_session, load_mat_file and main.  A path is the         *)
(* sequence of its characters.                                             *)
(***************************************************************************)
\* line 321: range(1, 5)
NumRuns == 4

Slash == "/"

RECURSIVE SplitFrom(_, _, _)
\* path.split('/') from position p on, cur being the component begun
SplitFrom(path, p, cur) ==
    IF p > Len(path) THEN <<cur>>
    ELSE IF path[p] = Slash THEN <<cur>> \o SplitFrom(path, p + 1, <<>>)
    ELSE SplitFrom(path, p + 1, Append(cur, path[p]))

RECURSIVE NormComps(_, _, _)
\* posixpath.normpath's loop over the components: empty and '.' components
\* are dropped, '..' takes the component before it away
NormComps(comps, initial_slashes, new_comps) ==
    IF comps = <<>> THEN new_comps
    ELSE LET comp == Head(comps)
         IN  IF comp = <<>> \/ comp = <<".">>
             THEN NormComps(Tail(comps), initial_slashes, new_comps)
             ELSE IF \/ comp # <<".", ".">>
                     \/ (initial_slashes = 0 /\ new_comps = <<>>)
                     \/ (new_comps # <<>> /\ new_comps[Len(new_comps)] = <<".", ".">>)
             THEN NormComps(Tail(comps), initial_slashes, Append(new_comps, comp))
             ELSE IF new_comps # <<>>
             THEN NormComps(Tail(comps), initial_slashes,
                            SubSeq(new_comps, 1, Len(new_comps) - 1))
             ELSE NormComps(Tail(comps), initial_slashes, new_comps)

RECURSIVE JoinComps(_)
\* '/'.join(comps)
JoinComps(comps) ==
    IF comps = <<>> THEN <<>>
    ELSE IF Len(comps) = 1 THEN comps[1]
    ELSE comps[1] \o <<Slash>> \o JoinComps(Tail(comps))

\* line 32: os.path.normpath (posixpath)
normpath(path) ==
    IF path = <<>> THEN <<".">>
    ELSE LET initial_slashes ==
                 IF path[1] # Slash THEN 0
                 ELSE IF /\ Len(path) >= 2 /\ path[2] = Slash
                         /\ ~(Len(path) >= 3 /\ path[3] = Slash)
                      THEN 2 ELSE 1
             joined == JoinComps(NormComps(SplitFrom(path, 1, <<>>), initial_slashes, <<>>))
             whole  == [p \in 1..initial_slashes |-> Slash] \o joined
         IN  IF whole = <<>> THEN <<".">> ELSE whole

\* text holds pattern at position p
HasAt(text, p, pattern) ==
    /\ p + Len(pattern) - 1 <= Len(text)
    /\ SubSeq(text, p, p + Len(pattern) - 1) = pattern

\* the positions from p on that hold a slash
SlashesFrom(text, p) == {q \in p..Len(text) : text[q] = Slash}

\* the place where the run of non-slash characters that holds p ends
RunEnd(text, p) ==
    IF SlashesFrom(text, p) = {} THEN Len(text)
    ELSE (CHOOSE q \in SlashesFrom(text, p) : \A o \in SlashesFrom(text, p) : q <= o) - 1

\* line 35: r'(sub-[^/]+)/(ses-[^/]+)' matches at position p: 'sub-', one
\* non-slash character or more up to a slash, then 'ses-' and one non-slash
\* character or more
MatchesAt(text, p) ==
    /\ HasAt(text, p, <<"s", "u", "b", "-">>)
    /\ RunEnd(text, p) >= p + 4
    /\ RunEnd(text, p) + 1 <= Len(text)
    /\ HasAt(text, RunEnd(text, p) + 2, <<"s", "e", "s", "-">>)
    /\ RunEnd(text, p) + 6 <= Len(text)
    /\ text[RunEnd(text, p) + 6] # Slash

SubjectSessionMatches(text) == {p \in 1..Len(text) : MatchesAt(text, p)}

\* line 23-43: re.search takes the leftmost match; found is FALSE where the
\* function raises ValueError
extract_subject_session(dir) ==
    LET text == normpath(dir)
    IN  IF SubjectSessionMatches(text) = {}
        THEN [found |-> FALSE, subject_id |-> <<>>, session_id |-> <<>>]
        ELSE LET p == CHOOSE m \in SubjectSessionMatches(text) :
                          \A o \in SubjectSessionMatches(text) : m <= o
                 q == RunEnd(text, p) + 2
             IN  [found      |-> TRUE,
                  subject_id |-> SubSeq(text, p, RunEnd(text, p)),
                  session_id |-> SubSeq(text, q, RunEnd(text, q))]

\* line 46-87: what load_mat_file does for each state of the file: absent
\* (line 57-59), not loadable (line 64, raised again at line 82-85), loaded
\* without one of 'labels', 'data', 'units' (line 67-70), or complete
load_mat_file(file) ==
    CASE file = "absent"       -> "FileNotFoundError"
      [] file = "unreadable"   -> "loadmat error"
      [] file = "missing keys" -> "KeyError"
      [] OTHER                 -> "loaded"

MatFileStates == {"absent", "unreadable", "missing keys", "complete"}

\* line 305-308: some item of the dictionary has the value 'trigger'
HasTriggerLabel(renamed) ==
    \E p \in 1..Len(renamed.dictionary) : renamed.dictionary[p].value = "trigger"

\* line 305-308: the key of the first such item
trigger_original_label(renamed) ==
    LET at == {p \in 1..Len(renamed.dictionary) : renamed.dictionary[p].value = "trigger"}
    IN  renamed.dictionary[CHOOSE p \in at : \A o \in at : p <= o].key

\* line 310: labels.tolist().index(label), 0-based
IndexOf(ls, label) ==
    LET at == {p \in 1..Len(ls) : ls[p] = label}
    IN  (CHOOSE p \in at : \A o \in at : p <= o) - 1

\* isinstance(run_metadata, dict), of what extract_metadata_from_json returned
IsDict(outcome) == outcome.kind = "dict"

\* line 332
SkipRun(outcome) == outcome.kind = "None" \/ ~IsDict(outcome)

Exception(type, raised_by) == [type |-> type, raised_by |-> raised_by]

\* line 285; an exception goes to the handler at line 369-372, which logs it
MainExtractIds ==
    /\ main_pc = "start"
    /\ IF extract_subject_session(physio_root_dir).found
       THEN main_pc' = "load" /\ UNCHANGED error
       ELSE /\ error' = Exception("ValueError", "extract_subject_session")
            /\ main_pc' = "done"
    /\ UNCHANGED <<physio_root_dir, bids_root_dir, mat_file, json_files, trigger_channel_index,
                   trigger_channel_data, run_idx, visited, skipped, segmented>>
    /\ UNCHANGED <<segVars, mapVars, metaVars>>

\* line 288-292
MainLoadMat ==
    /\ main_pc = "load"
    /\ IF load_mat_file(mat_file) = "loaded"
       THEN main_pc' = "rename" /\ UNCHANGED error
       ELSE /\ error' = Exception(load_mat_file(mat_file), "load_mat_file")
            /\ main_pc' = "done"
    /\ UNCHANGED <<physio_root_dir, bids_root_dir, mat_file, json_files, trigger_channel_index,
                   trigger_channel_data, run_idx, visited, skipped, segmented>>
    /\ UNCHANGED <<segVars, mapVars, metaVars>>

\* line 295-318: with no 'trigger' item, trigger_original_label is unbound
\* at line 310
MainRename ==
    /\ main_pc = "rename"
    /\ bids_labels' = rename_channels(labels)
    /\ IF HasTriggerLabel(rename_channels(labels))
       THEN LET index == IndexOf(labels, trigger_original_label(rename_channels(labels)))
            IN  /\ trigger_channel_index' = index
                /\ trigger_channel_data' = Column(data, index)
                /\ main_pc' = "loop"
                /\ run_idx' = 1
                /\ processed_jsons' = {}
                /\ UNCHANGED error
       ELSE /\ error' = Exception("UnboundLocalError", "main")
            /\ main_pc' = "done"
            /\ UNCHANGED <<trigger_channel_index, trigger_channel_data, run_idx,
                           processed_jsons>>
    /\ UNCHANGED <<physio_root_dir, bids_root_dir, mat_file, json_files, visited, skipped,
                   segmented, labels, call, result, succeeded>>
    /\ UNCHANGED segVars

\* line 321-361: one iteration of the loop over the runs
MainLoopStep ==
    /\ main_pc = "loop"
    /\ run_idx <= NumRuns
    /\ LET ids  == extract_subject_session(physio_root_dir)
           path == json_file_path(bids_root_dir, ids.subject_id, ids.session_id, run_idx)
           r    == extract_metadata_from_json(path, json_files[run_idx], processed_jsons)
       IN  /\ call' = [path |-> path, file |-> json_files[run_idx]]
           /\ result' = r.result
           /\ processed_jsons' = r.processed_jsons
           /\ succeeded' = IF r.result.kind = "tuple"
                           THEN succeeded \cup {path} ELSE succeeded
           /\ visited' = visited \cup {run_idx}
           /\ IF Raised(r.result)
              THEN \* line 369-372
                   /\ error' = Exception(r.result.kind, "extract_metadata_from_json")
                   /\ main_pc' = "done"
                   /\ UNCHANGED <<run_idx, skipped, segmented>>
              ELSE IF SkipRun(r.result)
              THEN \* line 333-334
                   /\ skipped' = skipped \cup {run_idx}
                   /\ run_idx' = run_idx + 1
                   /\ UNCHANGED <<main_pc, error, segmented>>
              ELSE \* line 337-340: find_runs takes (data, run_metadata,
                   \* sampling_rate) and is given a third positional
                   \* argument and sampling_rate by keyword
                   /\ segmented' = segmented \cup
                          {[run_idx        |-> run_idx,
                            RepetitionTime |-> r.result.run_metadata.RepetitionTime,
                            NumVolumes     |-> r.result.run_metadata.NumVolumes]}
                   /\ error' = Exception("TypeError", "find_runs")
                   /\ main_pc' = "done"
                   /\ UNCHANGED <<run_idx, skipped>>
    /\ UNCHANGED <<physio_root_dir, bids_root_dir, mat_file, json_files, trigger_channel_index,
                   trigger_channel_data>>
    /\ UNCHANGED <<segVars, mapVars>>

\* line 363-367
MainFinish ==
    /\ main_pc = "loop"
    /\ run_idx > NumRuns
    /\ main_pc' = "done"
    /\ UNCHANGED <<physio_root_dir, bids_root_dir, mat_file, json_files, trigger_channel_index,
                   trigger_channel_data, run_idx, visited, skipped, segmented, error>>
    /\ UNCHANGED <<segVars, mapVars, metaVars>>

\* directory paths handed to main
Dirs ==
    { <<"d", "a", "t", "a", "/", "s", "u", "b", "-", "0", "1", "/", "s", "e", "s", "-", "1">>,
      <<"/", "d", "a", "t", "a", "/", "s", "u", "b", "-", "0", "1", "/", "s", "e", "s", "-", "1", "/">>,
      <<"m", "y", "s", "u", "b", "-", "0", "1", "/", "s", "e", "s", "-", "1">>,
      <<"s", "u", "b", "-", "0", "1", "/", ".", "/", "s", "e", "s", "-", "1">>,
      <<"s", "u", "b", "-", "0", "1", "/", "x", "/", ".", ".", "/", "s", "e", "s", "-", "1">>,
      <<"s", "u", "b", "-", "0", "1">>,
      <<"s", "e", "s", "-", "1", "/", "s", "u", "b", "-", "0", "1">>,
      <<"s", "u", "b", "-", "/", "s", "e", "s", "-", "1">> }

\* BIDS roots handed to main: as typed on the command line, with or without
\* a trailing slash, or empty
Roots == { <<"b", "i", "d", "s">>, <<"b", "i", "d", "s", "/">>, <<>> }

\* the labels of the recording
MainLabelLists ==
    { <<L_ECG1, L_RSP1, L_TRIGGER, L_DIGITAL1>>,
      <<L_ECG1, L_TRIGGER, L_TRIGGER>>,
      <<L_ECG1, L_RSP1>> }

\* a recording of two rows with one column for each label, the samples of
\* neighbouring columns differing
MainRecording(ls) ==
    [j \in 1..2 |-> [c \in 1..Len(ls) |-> IF (j + c) % 2 = 0 THEN 8 ELSE 5]]

CompleteMetadata ==
    [TaskName |-> JStr("rest"), RepetitionTime |-> JNum(TRDen),
     NumVolumes |-> JNum(MaxVolumes)]

MainFileStates ==
    { AbsentFile,
      MalformedFile,
      MappingFile(CompleteMetadata),
      MappingFile([CompleteMetadata EXCEPT !.RepetitionTime = JAbsent]) }

(***************************************************************************)
(* Specifications, one for each part of the program.  A part that a        *)
(* specification leaves out keeps its variables at the idle values.        *)
(***************************************************************************)
Recordings ==
    UNION {[1..len -> {<<v>> : v \in SampleValues}] : len \in 1..MaxSamples}

\* the module as loaded (the name unbound), or the name set to the
\* trigger channel of the recording
SegInit ==
    /\ data \in Recordings
    /\ mri_trigger_data \in {Unbound, Bound(Column(data, 0))}
    /\ run_metadata \in [TaskName : {"rest"}, RepetitionTime : 1..MaxTR,
                         NumVolumes : 1..MaxVolumes]
    /\ sampling_rate \in 1..MaxSamplingRate
    /\ trigger_starts = <<>>
    /\ i = 0
    /\ current_run = <<>>
    /\ runs = <<>>
    /\ accepted = <<>>
    /\ discards = <<>>
    /\ pc = "start"
    /\ labels = <<>> /\ bids_labels = NotRenamed
    /\ processed_jsons = {} /\ call = NoCall /\ result = NoResult /\ succeeded = {}
    /\ physio_root_dir = <<>> /\ bids_root_dir = <<>> /\ mat_file = "absent" /\ json_files = <<>>
    /\ trigger_channel_index = -1 /\ trigger_channel_data = <<>>
    /\ run_idx = 0 /\ visited = {} /\ skipped = {} /\ segmented = {}
    /\ main_pc = "idle" /\ error = NoError

SegNext == Detect \/ ScanStep \/ ScanEnd

SpecSeg == SegInit /\ [][SegNext]_vars

MapInit ==
    /\ labels \in LabelLists
    /\ bids_labels = NotRenamed
    /\ data = <<>> /\ mri_trigger_data = Unbound
    /\ run_metadata = NoRunMetadata /\ sampling_rate = 0
    /\ trigger_starts = <<>> /\ i = 0 /\ current_run = <<>> /\ runs = <<>>
    /\ accepted = <<>> /\ discards = <<>> /\ pc = "idle"
    /\ processed_jsons = {} /\ call = NoCall /\ result = NoResult /\ succeeded = {}
    /\ physio_root_dir = <<>> /\ bids_root_dir = <<>> /\ mat_file = "absent" /\ json_files = <<>>
    /\ trigger_channel_index = -1 /\ trigger_channel_data = <<>>
    /\ run_idx = 0 /\ visited = {} /\ skipped = {} /\ segmented = {}
    /\ main_pc = "idle" /\ error = NoError

MapNext == RenameChannels

SpecMap == MapInit /\ [][MapNext]_vars

MetaInit ==
    /\ processed_jsons = {} /\ call = NoCall /\ result = NoResult /\ succeeded = {}
    /\ data = <<>> /\ mri_trigger_data = Unbound
    /\ run_metadata = NoRunMetadata /\ sampling_rate = 0
    /\ trigger_starts = <<>> /\ i = 0 /\ current_run = <<>> /\ runs = <<>>
    /\ accepted = <<>> /\ discards = <<>> /\ pc = "idle"
    /\ labels = <<>> /\ bids_labels = NotRenamed
    /\ physio_root_dir = <<>> /\ bids_root_dir = <<>> /\ mat_file = "absent" /\ json_files = <<>>
    /\ trigger_channel_index = -1 /\ trigger_channel_data = <<>>
    /\ run_idx = 0 /\ visited = {} /\ skipped = {} /\ segmented = {}
    /\ main_pc = "idle" /\ error = NoError

MetaNext == MetaCall

SpecMeta == MetaInit /\ [][MetaNext]_vars

MainInit ==
    /\ physio_root_dir \in Dirs
    /\ bids_root_dir \in Roots
    /\ mat_file \in MatFileStates
    /\ labels \in MainLabelLists
    /\ data = MainRecording(labels)
    /\ json_files \in [1..NumRuns -> MainFileStates]
    /\ trigger_channel_index = -1 /\ trigger_channel_data = <<>>
    /\ run_idx = 0 /\ visited = {} /\ skipped = {} /\ segmented = {}
    /\ main_pc = "start" /\ error = NoError
    /\ bids_labels = NotRenamed
    /\ processed_jsons = {} /\ call = NoCall /\ result = NoResult /\ succeeded = {}
    /\ mri_trigger_data = Unbound
    /\ run_metadata = NoRunMetadata /\ sampling_rate = 0
    /\ trigger_starts = <<>> /\ i = 0 /\ current_run = <<>> /\ runs = <<>>
    /\ accepted = <<>> /\ discards = <<>> /\ pc = "idle"

MainNext ==
    MainExtractIds \/ MainLoadMat \/ MainRename \/ MainLoopStep \/ MainFinish

SpecMain == MainInit /\ [][MainNext]_vars

(***************************************************************************)
(* Properties of extract_trigger_points and find_runs, under SpecSeg.      *)
(***************************************************************************)
Scanned == pc \in {"scan", "done"}

Above(j) == mri_trigger_data.value[j] > threshold

Onsets == {trigger_starts[p] : p \in 1..Len(trigger_starts)}

Ascending(s) == \A p \in 1..(Len(s) - 1) : s[p] < s[p + 1]

\* the first m onsets are spaced exactly samples_per_volume apart
EvenlySpaced(m) ==
    /\ m <= Len(trigger_starts)
    /\ \A p \in 1..(m - 1) : trigger_starts[p + 1] - trigger_starts[p] = spv

\* C1: when the onsets begin with k runs' worth (k * num_volumes) of onsets
\* spaced exactly samples_per_volume apart, the returned list's first k
\* segments are those runs: the j-th starts at onset number (j-1)*n + 1 and
\* ends at start_index + n * samples_per_volume; and when no onset follows
\* the k*n-th, exactly k segments are returned.
C1_ContiguousRunsAreCut ==
    pc = "done" =>
        \A k \in 1..MaxSamples :
            EvenlySpaced(k * num_volumes) =>
                /\ Len(runs) >= k
                /\ \A j \in 1..k :
                      /\ runs[j].start_index = trigger_starts[(j - 1) * num_volumes + 1]
                      /\ accepted[j].end_idx = runs[j].start_index + num_volumes * spv
                /\ (Len(trigger_starts) = k * num_volumes => Len(runs) = k)

\* a contiguous slice of the onsets holding exactly num_volumes of them
IsFullCandidate(c) ==
    /\ Len(c) = num_volumes
    /\ \E p \in 1..Len(trigger_starts) :
          /\ p + num_volumes - 1 <= Len(trigger_starts)
          /\ c = SubSeq(trigger_starts, p, p + num_volumes - 1)

EmittedAreFull ==
    /\ Len(accepted) = Len(runs)
    /\ \A j \in 1..Len(runs) :
          /\ IsFullCandidate(accepted[j].onsets)
          /\ runs[j].start_index = accepted[j].onsets[1]

\* the scan is at an iteration whose candidate, after taking this onset,
\* holds fewer than num_volumes onsets and is followed by a gap larger than
\* samples_per_volume
PartialAtGap ==
    /\ pc = "scan"
    /\ i < Len(trigger_starts) - 1
    /\ Len(AppendOnset(current_run, num_volumes, trigger_starts[i + 1])) < num_volumes
    /\ trigger_starts[i + 2] - trigger_starts[i + 1] > spv

\* C2: at every point of the scan each emitted segment starts at the first
\* of exactly num_volumes consecutive onsets, and a candidate holding fewer
\* than num_volumes onsets at a gap larger than samples_per_volume is
\* dropped (the accumulator becomes empty) with no segment emitted.
C2_NoPartialSegment ==
    /\ []EmittedAreFull
    /\ [][PartialAtGap => (current_run' = <<>> /\ runs' = runs)]_vars

C2_Witness ==
    /\ pc = "done"
    /\ Len(runs) >= 1
    /\ \E d \in 1..Len(discards) : Len(discards[d]) \in 1..(num_volumes - 1)

\* C3: no segment is emitted for a candidate whose end_idx exceeds the rows
\* of the recording, and every emitted segment holds num_volumes *
\* samples_per_volume rows.
C3_NoTruncatedSegment ==
    \A j \in 1..Len(runs) :
        /\ accepted[j].end_idx <= Len(data)
        /\ Len(runs[j].data) = num_volumes * spv

\* C6 as claimed: a channel above the threshold at index 0 yields no onset
\* at index 0, and every onset is an index whose previous sample is at or
\* below the threshold and whose own sample is above it.
C6_NoOnsetAtIndexZero ==
    Scanned =>
        /\ (Above(1) => 0 \notin Onsets)
        /\ \A o \in Onsets : o >= 1 /\ ~Above(o) /\ Above(o + 1)

\* C6 as amended: the onsets are, in ascending order, exactly the indices
\* whose sample is above the threshold and that are index 0 or follow a
\* sample at or below the threshold; so a channel above the threshold at
\* index 0 has index 0 as its first onset.
C6_OnsetsAreRisesFromImplicitZero ==
    Scanned =>
        /\ Ascending(trigger_starts)
        /\ Onsets = {j - 1 : j \in {q \in 1..Len(mri_trigger_data.value) :
                                      Above(q) /\ (q = 1 \/ ~Above(q - 1))}}
        /\ (Above(1) => trigger_starts[1] = 0)

C6_Witness ==
    /\ Scanned
    /\ Above(1)
    /\ Len(trigger_starts) >= 2

\* C10 as claimed: each emitted segment starts at or after the end_idx of
\* the segment emitted before it.
C10_SegmentsDisjoint ==
    \A j \in 2..Len(runs) : runs[j].start_index >= accepted[j - 1].end_idx

OnsetsAtLeastAVolumeApart ==
    \A p \in 1..(Len(trigger_starts) - 1) :
        trigger_starts[p + 1] - trigger_starts[p] >= spv

\* C10 as amended: when consecutive onsets are at least samples_per_volume
\* apart, each emitted segment starts at or after the end_idx of the
\* segment emitted before it.
C10_SegmentsDisjointWhenSpaced ==
    OnsetsAtLeastAVolumeApart => C10_SegmentsDisjoint

C10_Witness ==
    /\ pc = "done"
    /\ Len(runs) >= 2
    /\ spv >= 2
    /\ OnsetsAtLeastAVolumeApart

(***************************************************************************)
(* Properties of rename_channels, under SpecMap.                           *)
(***************************************************************************)
Renamed == bids_labels # NotRenamed

DictKeys ==
    {bids_labels.dictionary[p].key : p \in 1..Len(bids_labels.dictionary)}

DictValues(label) ==
    {bids_labels.dictionary[p].value :
        p \in {q \in 1..Len(bids_labels.dictionary) :
                  bids_labels.dictionary[q].key = label}}

HasDigitalMarker(label) == Contains(DIGITAL_, label)

HasPattern(label) ==
    \E e \in 1..Len(original_label_mapping) :
        Contains(original_label_mapping[e].original, label)

ShouldBeMapped(label) == ~HasDigitalMarker(label) /\ HasPattern(label)

\* role is the role of the first table entry whose pattern is in the label
IsRoleOf(role, label) ==
    \E e \in 1..Len(original_label_mapping) :
        /\ Contains(original_label_mapping[e].original, label)
        /\ \A f \in 1..(e - 1) : ~Contains(original_label_mapping[f].original, label)
        /\ role = original_label_mapping[e].bids

\* C7: in the returned mapping a label holding the digital-input marker is
\* absent (also when it holds a table pattern), a label holding no table
\* pattern is absent, every other label is mapped to the role of the first
\* table entry (order ECG, RSP, EDA, Trigger, PPG) whose pattern is in it;
\* the returned list holds the roles of the mapped labels in input order.
C7_FirstTableEntryWins ==
    Renamed =>
        /\ \A p \in 1..Len(labels) :
              /\ HasDigitalMarker(labels[p]) => labels[p] \notin DictKeys
              /\ ~HasPattern(labels[p]) => labels[p] \notin DictKeys
              /\ ShouldBeMapped(labels[p]) =>
                    /\ labels[p] \in DictKeys
                    /\ \A role \in DictValues(labels[p]) : IsRoleOf(role, labels[p])
        /\ DictKeys \subseteq {labels[p] : p \in 1..Len(labels)}
        /\ Cardinality(DictKeys) = Len(bids_labels.dictionary)
        /\ LET mapped == SelectSeq(labels, ShouldBeMapped)
           IN  /\ Len(bids_labels.list) = Len(mapped)
               /\ \A q \in 1..Len(mapped) : IsRoleOf(bids_labels.list[q], mapped[q])

C7_Witness ==
    /\ Renamed
    /\ labels = <<L_EDA_RSP, L_DIGITAL_ECG, L_LOWER_ECG>>
    /\ bids_labels.list = <<"respiratory">>
    /\ DictKeys = {L_EDA_RSP}

(***************************************************************************)
(* Properties of extract_metadata_from_json, under SpecMeta.               *)
(***************************************************************************)
\* C4, first part: a path is in processed_jsons exactly when an earlier
\* call on that path returned metadata.
ProcessedAreSucceeded == processed_jsons = succeeded

\* C4, second part, of the call that a step makes: on a path already in the
\* set it returns None without asking the file system and without checking
\* fields, and leaves the set as it was; a call that raises leaves the set
\* as it was.
CallKeepsSet ==
    /\ call'.path \in processed_jsons =>
          /\ result'.kind = "None"
          /\ ~result'.accessed
          /\ ~result'.validated
          /\ processed_jsons' = processed_jsons
    /\ Raised(result') => processed_jsons' = processed_jsons

\* C4: over any sequence of calls sharing one set processed_jsons, both
\* parts hold.
C4_ProcessedSetIsIdempotentCache ==
    /\ []ProcessedAreSucceeded
    /\ [][CallKeepsSet]_vars

\* a call on a processed path whose file has since become malformed
C4_Witness ==
    /\ call.path \in processed_jsons
    /\ call.file.kind = "malformed"
    /\ result.kind = "None"
    /\ processed_jsons # Paths

AbsentOrNull(metadata) ==
    {key \in RequiredFields : metadata[key].kind \in {"absent", "null"}}

\* C5: for every mapping read, the incomplete-metadata error (ValueError)
\* is raised exactly when one of TaskName, RepetitionTime, NumVolumes is
\* absent or null, and it names exactly the absent-or-null fields.
C5_IncompleteExactlyWhenAbsentOrNull ==
    (result.validated /\ call.file.kind = "mapping") =>
        /\ (result.kind = "ValueError") <=> (AbsentOrNull(call.file.metadata) # {})
        /\ result.kind = "ValueError" =>
              {result.missing_fields[p] : p \in 1..Len(result.missing_fields)}
                  = AbsentOrNull(call.file.metadata)

(***************************************************************************)
(* Properties of main, under SpecMain.                                     *)
(***************************************************************************)
\* the run's metadata file is absent or lacks a required field
MetadataMissing(r) ==
    \/ json_files[r].kind = "absent"
    \/ /\ json_files[r].kind = "mapping"
       /\ AbsentOrNull(json_files[r].metadata) # {}

\* C8: in the loop over the run indices, a run whose metadata is missing
\* (file absent, or a required field missing) is skipped and the loop goes
\* on to the next run index; missing metadata does not end the session.
C8_MissingMetadataSkipsOnlyThatRun ==
    main_pc = "done" =>
        /\ \A r \in visited :
              MetadataMissing(r) =>
                  /\ r \in skipped
                  /\ r < NumRuns => (r + 1) \in visited
        /\ error.raised_by = "extract_metadata_from_json" =>
              error.type \notin {"FileNotFoundError", "ValueError"}

\* the run's metadata was extracted: file present, well-formed, the three
\* fields set, the path not seen before
Resolved(r) ==
    /\ r \in visited
    /\ json_files[r].kind = "mapping"
    /\ \A key \in RequiredFields : Truthy(json_files[r].metadata[key])

\* C9: the run indices are taken in ascending order, and a run whose
\* metadata was extracted is not skipped: its repetition time and volume
\* count are handed to find_runs before the next run index is taken.
C9_ResolvedRunsReachSegmenter ==
    /\ \E n \in 0..NumRuns : visited = 1..n
    /\ \A r \in 1..NumRuns :
          Resolved(r) =>
              /\ r \notin skipped
              /\ \E c \in segmented :
                    /\ c.run_idx = r
                    /\ c.RepetitionTime = json_files[r].metadata.RepetitionTime
                    /\ c.NumVolumes = json_files[r].metadata.NumVolumes
====
